---------------------------- MODULE Spec2Model ----------------------------
(***************************************************************************)
(* Model of the monitoring scripts of the repository:                      *)
(*   - ml/scripts/evaluate_models.py          (ModelEvaluator,  EvalSpec)   *)
(*   - ml/scripts/check_model_performance.py  (ModelPerformanceChecker,     *)
(*                                             CheckSpec)                   *)
(*   - monitoring/analyze_costs.py            (CostAnalyzer,    CostSpec)   *)
(*   - monitoring/collect_metrics.py          (MetricsCollector,            *)
(*                                             CollectSpec)                 *)
(* MetricSpec runs the arithmetic of ModelEvaluator.evaluate_model on given *)
(* series.                                                                 *)
(* Each script is one sequential process; one specification per script.    *)
(* Floating point values are modelled as exact rationals with an explicit  *)
(* NaN, so that comparisons with NaN are false as in IEEE 754.             *)
(***************************************************************************)
EXTENDS Integers, Sequences, FiniteSets, TLC

VARIABLES
    pc,                 \* position of the running script
    slack_webhook_url,  \* "" when SLACK_WEBHOOK_URL is unset, else the url
    posts,              \* number of requests.post calls made to the webhook
    logged,             \* set of logger.error events emitted so far
    \* ---- ModelEvaluator (evaluate_models.py)
    evaluation_data,    \* number of rows of the loaded evaluation dataset
    models,             \* model ids returned by GET /models
    idx,                \* number of models the for loop has finished
    predictions,        \* get_predictions' local list: "ok" or "None" per row
    errors,             \* get_predictions' local error counter
    queries,            \* POST /predict calls issued for the current model
    predRet,            \* what get_predictions returned: "list" or "None"
    results,            \* self.results, in insertion order
    snapshot,           \* evaluation_results.json
    exposition,         \* the exposition file of the running script
    ret,                \* return value of evaluate_all_models
    \* ---- ModelPerformanceChecker (check_model_performance.py)
    results_file,       \* results['results'] of evaluation_results.json
    alerts,             \* check_performance's alerts list
    summary,            \* check_performance's summary list
    message,            \* the report format_alert_message has built
    \* ---- CostAnalyzer (analyze_costs.py)
    cost_threshold,     \* COST_THRESHOLD
    df,                 \* the cost rows load_cost_data returns
    daily_stats,        \* analyze_daily_costs' result
    anomalies,          \* analyze_anomalies' result
    cost_alerts,        \* check_thresholds' result
    \* ---- ModelEvaluator.evaluate_model on given series
    y_true,             \* evaluation_data['actual_price'].values
    y_pred,             \* predicted_high of every prediction
    predicted_low,      \* predicted_low of every prediction
    model_metrics,      \* the metrics dict evaluate_model builds
    \* ---- MetricsCollector (collect_metrics.py)
    gauges,             \* the labelled gauges of the registry that are set
    ran                 \* the collectors that have returned, in order

commonVars == <<pc, slack_webhook_url, posts, logged>>
evalVars == <<evaluation_data, models, idx, predictions, errors, queries,
              predRet, results, snapshot, exposition, ret>>
checkVars == <<results_file, alerts, summary, message>>
costVars == <<cost_threshold, df, daily_stats, anomalies, cost_alerts>>
metricVars == <<y_true, y_pred, predicted_low, model_metrics>>
collectVars == <<gauges, ran>>
vars == <<commonVars, evalVars, checkVars, costVars, metricVars, collectVars>>

----------------------------------------------------------------------------
(* Bounds of the model *)

\* largest evaluation dataset (rows)
MaxRows == 10
\* largest number of direction disagreements the prediction service produces
MaxMiss == 2

\* the ids GET /models may return, in the order it returns them
ModelList == <<"A", "B">>

----------------------------------------------------------------------------
(* Floats: exact rationals n/d (d > 0), or NaN *)

NaN == [nan |-> TRUE, n |-> 0, d |-> 1]
Rat(a, b) == [nan |-> FALSE, n |-> a, d |-> b]
Num(a) == Rat(a, 1)

\* a < b on floats: false when either side is NaN
FLt(a, b) == ~a.nan /\ ~b.nan /\ a.n * b.d < b.n * a.d
\* a > b on floats: false when either side is NaN
FGt(a, b) == FLt(b, a)

----------------------------------------------------------------------------
(* ModelEvaluator *)

\* ALERT_THRESHOLD default "0.8"
alert_threshold == Rat(4, 5)

\* errors > len(data) * 0.1, mutated to >=
ExceedsErrorBudgetInclusive(errs, nrows) == errs * 10 >= nrows
\* errors > len(data) * 0.1.  len(data) * 0.1 is either the integer
\* len(data)/10 or a double just above it, never below, so for integer
\* errors the comparison is the exact one.
ExceedsErrorBudget(errs, nrows) == errs * 10 > nrows

\* the response of the prediction service to one POST /predict: a usable
\* answer, an error (status, connection, malformed body), or no answer at
\* all.  requests.post is called without timeout=, so it waits for as long
\* as the peer keeps the connection open without answering.
Responses == {"ok", "fail", "none"}

\* np.mean(direction_true == direction_pred): agree/(n-1), NaN on an empty diff
DirectionalAccuracy(nrows, agree) ==
    IF nrows < 2 THEN NaN ELSE Rat(agree, nrows - 1)

\* the numbers of agreeing steps the received predictions can give
AgreeChoices(nrows) ==
    IF nrows < 2 THEN {0}
    ELSE {k \in 0..(nrows - 1) : (nrows - 1) - k <= MaxMiss}

\* self.results[model_id] = metrics (a dict: an existing key keeps its place)
SetResult(res, m, metrics) ==
    IF \E i \in 1..Len(res) : res[i].model_id = m
    THEN [i \in 1..Len(res) |->
            IF res[i].model_id = m
            THEN [model_id |-> m, metrics |-> metrics] ELSE res[i]]
    ELSE Append(res, [model_id |-> m, metrics |-> metrics])

ResultIds(res) == {res[i].model_id : i \in 1..Len(res)}

NoStats == [computed |-> FALSE, projected_monthly_cost |-> NaN]
NoAnomalies == [computed |-> FALSE, isNone |-> TRUE, dates |-> {}]
NoFile == [attempted |-> FALSE, written |-> FALSE, results |-> <<>>]
\* the exposition file before the run opens it: readers see the content
\* the previous run left
NoExposition == [attempted |-> FALSE, written |-> FALSE, results |-> <<>>,
                 lines |-> <<>>, visible |-> "previous"]
\* open(path, 'w') has raised: the file is as it was
OpenFailed == [attempted |-> TRUE, written |-> FALSE, results |-> <<>>,
               lines |-> <<>>, visible |-> "previous"]
\* open(path, 'w') has returned: the file is truncated, nothing written yet
Truncated == [attempted |-> TRUE, written |-> FALSE, results |-> <<>>,
              lines |-> <<>>, visible |-> "empty"]
\* f.write(...) has returned and the file is closed
Written(res, lines) == [attempted |-> TRUE, written |-> TRUE, results |-> res,
                        lines |-> lines, visible |-> "new"]

\* the text of a label set with one label: {label="value"}
LabelSet(label, value) == <<"{", label, "=", "\"", value, "\"", "}">>

\* str.replace(old, new) on a text held as a sequence of pieces, every
\* character outside [A-Za-z0-9_] being a piece of its own
RECURSIVE Replace(_, _, _)
Replace(text, old, new) ==
    IF text = <<>> THEN <<>>
    ELSE <<IF Head(text) = old THEN new ELSE Head(text)>>
         \o Replace(Tail(text), old, new)

\* concatenation of a sequence of sequences
RECURSIVE Flatten(_)
Flatten(seqs) ==
    IF seqs = <<>> THEN <<>> ELSE Head(seqs) \o Flatten(Tail(seqs))

\* isinstance(value, (int, float)) on a metric of evaluate_model: every
\* metric but evaluated_at is a float, NaN included
IsNumber(metric) == metric # "evaluated_at"

\* the keys of a metrics dict of ModelEvaluator in insertion order
MetricOrder == <<"mse", "rmse", "mae", "r2", "avg_confidence",
                 "confidence_error_correlation", "directional_accuracy",
                 "interval_accuracy", "profit_correlation", "evaluated_at">>

\* the lines ModelEvaluator.export_metrics builds for one model
ModelLines(model_id, metrics) ==
    Flatten([k \in 1..Len(MetricOrder) |->
        LET metric == MetricOrder[k]
        IN IF metric \in DOMAIN metrics /\ IsNumber(metric)
           THEN <<[text |-> Replace(<<"model_", metric>>, "-", "_")
                              \o LabelSet("model_id", model_id),
                   model_id |-> model_id,
                   metric |-> metric,
                   value |-> metrics[metric]]>>
           ELSE <<>>])

\* the lines ModelEvaluator.export_metrics builds
EvalExportLines(res) ==
    Flatten([i \in 1..Len(res) |-> ModelLines(res[i].model_id, res[i].metrics)])
\* no report built yet
NoMessage == [built |-> FALSE, alerted |-> <<>>, top |-> <<>>,
              models_with_alerts |-> 0, total_models |-> 0]

\* evaluate_model is not being run on given series
MetricIdle ==
    /\ y_true = <<>>
    /\ y_pred = <<>>
    /\ predicted_low = <<>>
    /\ model_metrics = <<>>

\* MetricsCollector is not running
CollectIdle == gauges = {} /\ ran = <<>>

\* the other scripts are not running
CheckIdle ==
    /\ results_file = <<>>
    /\ alerts = <<>>
    /\ summary = <<>>
    /\ message = NoMessage
CostIdle ==
    /\ cost_threshold = 0
    /\ df = <<>>
    /\ daily_stats = NoStats
    /\ anomalies = NoAnomalies
    /\ cost_alerts = <<>>

EvalInit ==
    /\ pc = "start"
    /\ slack_webhook_url \in {"", "url"}
    /\ posts = 0
    /\ logged = {}
    /\ evaluation_data = 0
    /\ models = <<>>
    /\ idx = 0
    /\ predictions = <<>>
    /\ errors = 0
    /\ queries = 0
    /\ predRet = "none"
    /\ results = <<>>
    /\ snapshot = NoFile
    /\ exposition = NoExposition
    /\ ret = "none"
    /\ CheckIdle
    /\ CostIdle
    /\ MetricIdle
    /\ CollectIdle

\* load_data: pd.read_csv succeeds with some number of rows, or raises
LoadData ==
    /\ pc = "start"
    /\ \/ \E n \in 0..MaxRows :
            /\ evaluation_data' = n
            /\ pc' = "models"
            /\ UNCHANGED <<logged, ret>>
       \/ /\ logged' = logged \cup {[event |-> "load_data"]}
          /\ pc' = "done"
          /\ ret' = "False"
          /\ UNCHANGED evaluation_data
    /\ UNCHANGED <<slack_webhook_url, posts, models, idx, predictions, errors,
                   queries, predRet, results, snapshot, exposition>>
    /\ UNCHANGED <<checkVars, costVars, metricVars, collectVars>>

\* evaluate_all_models: GET /models
GetModels ==
    /\ pc = "models"
    /\ \/ \E k \in 0..Len(ModelList) :
            /\ models' = SubSeq(ModelList, 1, k)
            /\ pc' = "loop"
            /\ UNCHANGED <<logged, ret>>
       \/ /\ logged' = logged \cup {[event |-> "model_list"]}
          /\ pc' = "done"
          /\ ret' = "False"
          /\ UNCHANGED models
       \* requests.get without timeout=, and no answer
       \/ /\ pc' = "blocked"
          /\ UNCHANGED <<models, logged, ret>>
    /\ UNCHANGED <<slack_webhook_url, posts, evaluation_data, idx, predictions,
                   errors, queries, predRet, results, snapshot, exposition>>
    /\ UNCHANGED <<checkVars, costVars, metricVars, collectVars>>

\* for model in models: evaluate_model -> get_predictions starts
NextModel ==
    /\ pc = "loop"
    /\ IF idx < Len(models)
       THEN /\ pc' = "predict"
            /\ predictions' = <<>>
            /\ errors' = 0
            /\ queries' = 0
            /\ predRet' = "none"
       ELSE /\ pc' = "save"
            /\ UNCHANGED <<predictions, errors, queries, predRet>>
    /\ UNCHANGED <<slack_webhook_url, posts, logged, evaluation_data, models,
                   idx, results, snapshot, exposition, ret>>
    /\ UNCHANGED <<checkVars, costVars, metricVars, collectVars>>

\* get_predictions: one iteration of for _, row in data.iterrows()
PredictRow ==
    /\ pc = "predict"
    /\ Len(predictions) < evaluation_data
    /\ queries' = queries + 1
    /\ \E r \in Responses :
          CASE r = "ok" ->
                 /\ predictions' = Append(predictions, "ok")
                 /\ UNCHANGED <<errors, pc>>
            [] r = "fail" ->
                 /\ errors' = errors + 1
                 /\ predictions' = Append(predictions, "None")
                 /\ UNCHANGED pc
            [] r = "none" ->
                 /\ pc' = "blocked"
                 /\ UNCHANGED <<errors, predictions>>
    /\ UNCHANGED <<slack_webhook_url, posts, logged, evaluation_data, models,
                   idx, predRet, results, snapshot, exposition, ret>>
    /\ UNCHANGED <<checkVars, costVars, metricVars, collectVars>>

\* get_predictions: the error budget check after the loop, and the return
ReturnPredictions ==
    /\ pc = "predict"
    /\ Len(predictions) = evaluation_data
    /\ IF ExceedsErrorBudget(errors, evaluation_data)
       THEN /\ logged' = logged \cup
                   {[event |-> "high_error_rate", model |-> models[idx + 1]]}
            /\ predRet' = "None"
       ELSE /\ predRet' = "list"
            /\ UNCHANGED logged
    /\ pc' = "evaluate"
    /\ UNCHANGED <<slack_webhook_url, posts, evaluation_data, models, idx,
                   predictions, errors, queries, results, snapshot,
                   exposition, ret>>
    /\ UNCHANGED <<checkVars, costVars, metricVars, collectVars>>

\* evaluate_model after get_predictions, and the loop body that stores the
\* metrics.  p['predicted_high'] on a None entry raises TypeError, and
\* mean_squared_error on an empty dataset raises ValueError; neither is
\* caught by evaluate_model, evaluate_all_models or main.
EvaluateModel ==
    /\ pc = "evaluate"
    /\ IF predRet = "None"
       THEN /\ idx' = idx + 1
            /\ pc' = "loop"
            /\ UNCHANGED results
       ELSE IF (\E i \in 1..Len(predictions) : predictions[i] = "None")
               \/ evaluation_data = 0
       THEN /\ pc' = "crashed"
            /\ UNCHANGED <<idx, results>>
       ELSE \E agree \in AgreeChoices(evaluation_data) :
            LET metrics == [directional_accuracy |->
                              DirectionalAccuracy(evaluation_data, agree)]
            IN /\ results' = SetResult(results, models[idx + 1], metrics)
               /\ IF FLt(metrics.directional_accuracy, alert_threshold)
                  THEN /\ pc' = "alert"
                       /\ UNCHANGED idx
                  ELSE /\ pc' = "loop"
                       /\ idx' = idx + 1
    \* predictions and errors are locals of the call that has returned
    /\ predictions' = <<>>
    /\ errors' = 0
    /\ queries' = 0
    /\ predRet' = "none"
    /\ UNCHANGED <<slack_webhook_url, posts, logged, evaluation_data, models,
                   snapshot, exposition, ret>>
    /\ UNCHANGED <<checkVars, costVars, metricVars, collectVars>>

\* ModelEvaluator.send_alert(model_id, metrics)
EvalSendAlert ==
    /\ pc = "alert"
    /\ \/ /\ IF slack_webhook_url = ""
             THEN UNCHANGED <<posts, logged>>
             ELSE /\ posts' = posts + 1
                  /\ \/ UNCHANGED logged
                     \/ logged' = logged \cup
                            {[event |-> "send_alert", model |-> models[idx + 1]]}
          /\ idx' = idx + 1
          /\ pc' = "loop"
       \* requests.post without timeout=, and no answer
       \/ /\ slack_webhook_url # ""
          /\ posts' = posts + 1
          /\ pc' = "blocked"
          /\ UNCHANGED <<idx, logged>>
    /\ UNCHANGED <<slack_webhook_url, evaluation_data, models, predictions,
                   errors, queries, predRet, results, snapshot, exposition, ret>>
    /\ UNCHANGED <<checkVars, costVars, metricVars, collectVars>>

\* save_results mutated to call export_metrics after the try block, whether
\* or not the snapshot was written
SaveResultsExportAlways ==
    /\ pc = "save"
    /\ \/ /\ snapshot' = [attempted |-> TRUE, written |-> TRUE,
                          results |-> results]
          /\ \/ /\ exposition' = Truncated
                /\ pc' = "write"
                /\ UNCHANGED <<logged, ret>>
             \/ /\ exposition' = OpenFailed
                /\ logged' = logged \cup {[event |-> "save_results"]}
                /\ pc' = "done"
                /\ ret' = "True"
       \/ /\ snapshot' = [attempted |-> TRUE, written |-> FALSE,
                          results |-> <<>>]
          /\ logged' = logged \cup {[event |-> "save_results"]}
          /\ exposition' = Truncated
          /\ pc' = "write"
          /\ UNCHANGED ret
    /\ UNCHANGED <<slack_webhook_url, posts, evaluation_data, models, idx,
                   predictions, errors, queries, predRet, results>>
    /\ UNCHANGED <<checkVars, costVars, metricVars, collectVars>>
\* save_results, with the export_metrics call inside its try block
\* up to the open(..., 'w') of export_metrics, which truncates the file
SaveResults ==
    /\ pc = "save"
    /\ \/ /\ snapshot' = [attempted |-> TRUE, written |-> TRUE,
                          results |-> results]
          /\ \/ /\ exposition' = Truncated
                /\ pc' = "write"
                /\ UNCHANGED <<logged, ret>>
             \/ /\ exposition' = OpenFailed
                /\ logged' = logged \cup {[event |-> "save_results"]}
                /\ pc' = "done"
                /\ ret' = "True"
       \/ /\ snapshot' = [attempted |-> TRUE, written |-> FALSE,
                          results |-> <<>>]
          /\ logged' = logged \cup {[event |-> "save_results"]}
          /\ pc' = "done"
          /\ ret' = "True"
          /\ UNCHANGED exposition
    /\ UNCHANGED <<slack_webhook_url, posts, evaluation_data, models, idx,
                   predictions, errors, queries, predRet, results>>
    /\ UNCHANGED <<checkVars, costVars, metricVars, collectVars>>

\* export_metrics: f.write of the lines and the close of the file, still
\* inside the try block of save_results
EvalWriteMetrics ==
    /\ pc = "write"
    /\ \/ /\ exposition' = Written(results, EvalExportLines(results))
          /\ UNCHANGED logged
       \/ /\ logged' = logged \cup {[event |-> "save_results"]}
          /\ UNCHANGED exposition
    /\ pc' = "done"
    /\ ret' = "True"
    /\ UNCHANGED <<slack_webhook_url, posts, evaluation_data, models, idx,
                   predictions, errors, queries, predRet, results, snapshot>>
    /\ UNCHANGED <<checkVars, costVars, metricVars, collectVars>>

EvalNext ==
    \/ LoadData
    \/ GetModels
    \/ NextModel
    \/ PredictRow
    \/ ReturnPredictions
    \/ EvaluateModel
    \/ EvalSendAlert
    \/ SaveResults
    \/ EvalWriteMetrics

EvalSpec == EvalInit /\ [][EvalNext]_vars

----------------------------------------------------------------------------
(* ModelPerformanceChecker *)

\* float('inf'), the default of the summary's rmse
Inf == Rat(1, 0)

\* self.thresholds, in declaration (dict) order; values in hundredths
thresholds == <<
    [metric |-> "directional_accuracy", threshold |-> Rat(80, 100)],
    [metric |-> "interval_accuracy",    threshold |-> Rat(75, 100)],
    [metric |-> "rmse",                 threshold |-> Rat(2, 100)],
    [metric |-> "profit_correlation",   threshold |-> Rat(60, 100)],
    [metric |-> "r2",                   threshold |-> Rat(70, 100)],
    [metric |-> "avg_confidence",       threshold |-> Rat(70, 100)] >>

MetricNames == {thresholds[i].metric : i \in 1..Len(thresholds)}

ThresholdOf(metric) ==
    thresholds[CHOOSE i \in 1..Len(thresholds) :
                  thresholds[i].metric = metric].threshold

\* the values a metric of the results file takes in the model: NaN, or the
\* metric's threshold plus an offset in hundredths
ValueCodes == {"nan", "below", "at", "above"}
ValueOf(metric, code) ==
    LET t == ThresholdOf(metric)
    IN CASE code = "nan"   -> NaN
         [] code = "below" -> Rat(t.n - 1, t.d)
         [] code = "at"    -> t
         [] code = "above" -> Rat(t.n + 1, t.d)

\* every sample: a value for each metric of a subset of the metric names
SampleSpace ==
    UNION {{[m \in S |-> ValueOf(m, c[m])] : c \in [S -> ValueCodes]} :
              S \in SUBSET MetricNames}

\* the samples of the files that hold several models
ReportSamples ==
    { [m \in MetricNames |-> ValueOf(m, "at")],
      [m \in MetricNames |-> ValueOf(m, IF m = "rmse" THEN "above" ELSE "below")],
      [m \in {"directional_accuracy", "rmse"} |->
          ValueOf(m, IF m = "rmse" THEN "above" ELSE "below")],
      [m \in {"r2"} |-> NaN] }

\* the number of rows of the report's top section: nlargest(3, ...)
TopN == 3

\* the ids of the models of a results file
CheckIds == {"A", "B", "C"}

\* sequences of distinct ids
RECURSIVE IdSeqs(_)
IdSeqs(ids) ==
    {<<>>} \cup UNION {{<<i>> \o q : q \in IdSeqs(ids \ {i})} : i \in ids}

\* the results files: one model with any sample, or several models
ResultsChoices ==
    {<<[model_id |-> "A", metrics |-> s]>> : s \in SampleSpace}
    \cup UNION {{[i \in 1..Len(q) |-> [model_id |-> q[i], metrics |-> f[i]]] :
                    f \in [1..Len(q) -> ReportSamples]} : q \in IdSeqs(CheckIds)}

\* the rule of check_performance for one metric, with > and < mutated to
\* >= and <=
RuleStatusInclusive(metric, value, threshold) ==
    IF metric = "rmse"
    THEN IF ~FLt(value, threshold) THEN "high" ELSE "ok"
    ELSE IF ~FGt(value, threshold) THEN "low" ELSE "ok"
\* the rule of check_performance mutated to count an undefined value as a
\* violation
RuleStatusNaNViolates(metric, value, threshold) ==
    IF metric = "rmse"
    THEN IF value.nan \/ FGt(value, threshold) THEN "high" ELSE "ok"
    ELSE IF value.nan \/ FLt(value, threshold) THEN "low" ELSE "ok"
\* the rule of check_performance for one metric present in the sample
RuleStatus(metric, value, threshold) ==
    IF metric = "rmse"
    THEN IF FGt(value, threshold) THEN "high" ELSE "ok"
    ELSE IF FLt(value, threshold) THEN "low" ELSE "ok"

\* model_alerts, mutated to stop at the first violated rule
RECURSIVE ModelAlertsFirstOnly(_, _)
ModelAlertsFirstOnly(metrics, k) ==
    IF k = 0 THEN <<>>
    ELSE LET rule == thresholds[k]
             rest == ModelAlertsFirstOnly(metrics, k - 1)
         IN IF rule.metric \notin DOMAIN metrics \/ rest # <<>>
            THEN rest
            ELSE LET st == RuleStatus(rule.metric, metrics[rule.metric],
                                      rule.threshold)
                 IN IF st = "ok" THEN rest
                    ELSE Append(rest, [metric |-> rule.metric,
                                       value |-> metrics[rule.metric],
                                       threshold |-> rule.threshold,
                                       status |-> st])
\* model_alerts after the first k thresholds, skipping absent metrics
RECURSIVE ModelAlerts(_, _)
ModelAlerts(metrics, k) ==
    IF k = 0 THEN <<>>
    ELSE LET rule == thresholds[k]
             rest == ModelAlerts(metrics, k - 1)
         IN IF rule.metric \notin DOMAIN metrics
            THEN rest
            ELSE LET st == RuleStatus(rule.metric, metrics[rule.metric],
                                      rule.threshold)
                 IN IF st = "ok" THEN rest
                    ELSE Append(rest, [metric |-> rule.metric,
                                       value |-> metrics[rule.metric],
                                       threshold |-> rule.threshold,
                                       status |-> st])

\* metrics.get(key, default)
Get(metrics, key, default) ==
    IF key \in DOMAIN metrics THEN metrics[key] ELSE default

\* the summary row of one model
SummaryRow(model_id, metrics, model_alerts) ==
    [model_id |-> model_id,
     directional_accuracy |-> Get(metrics, "directional_accuracy", Num(0)),
     interval_accuracy |-> Get(metrics, "interval_accuracy", Num(0)),
     rmse |-> Get(metrics, "rmse", Inf),
     profit_correlation |-> Get(metrics, "profit_correlation", Num(0)),
     alerts |-> Len(model_alerts)]

\* check_performance's alerts list over the first k models
RECURSIVE AlertsOf(_, _)
AlertsOf(res, k) ==
    IF k = 0 THEN <<>>
    ELSE LET model_alerts == ModelAlerts(res[k].metrics, Len(thresholds))
         IN IF model_alerts # <<>>
            THEN Append(AlertsOf(res, k - 1),
                        [model_id |-> res[k].model_id, alerts |-> model_alerts])
            ELSE AlertsOf(res, k - 1)

\* check_performance's summary list
SummaryOf(res) ==
    [k \in 1..Len(res) |->
        SummaryRow(res[k].model_id, res[k].metrics,
                   ModelAlerts(res[k].metrics, Len(thresholds)))]

\* a > b where NaN counts as the smallest value: the order in which
\* nlargest ranks the rows (rows with NaN come after every number)
RanksAbove(a, b) == IF b.nan THEN ~a.nan ELSE FGt(a, b)

\* the row nlargest takes next among the rows `left` of the frame: the
\* largest value, and of equal values the one that stands first in the frame
FirstLargest(rows, left) ==
    CHOOSE i \in left :
        \A j \in left \ {i} :
            \/ RanksAbove(rows[i].directional_accuracy,
                          rows[j].directional_accuracy)
            \/ /\ ~RanksAbove(rows[j].directional_accuracy,
                              rows[i].directional_accuracy)
               /\ i < j

\* summary_df.nlargest(n, 'directional_accuracy') restricted to the rows
\* `left`: pandas' keep='first'
RECURSIVE NLargest(_, _, _)
NLargest(rows, n, left) ==
    IF n = 0 \/ left = {} THEN <<>>
    ELSE LET i == FirstLargest(rows, left)
         IN <<rows[i]>> \o NLargest(rows, n - 1, left \ {i})

\* sum of the alerts column of the first k summary rows
RECURSIVE SumAlerts(_, _)
SumAlerts(rows, k) ==
    IF k = 0 THEN 0 ELSE SumAlerts(rows, k - 1) + rows[k].alerts

\* format_alert_message(alerts, summary), for a summary with rows: the
\* ids of the alert sections, the rows of the "Top Performing Models"
\* section, and the "Models with Alerts" and "Total Models" statistics
FormatAlertMessage(alert_list, rows) ==
    [built |-> TRUE,
     alerted |-> [i \in 1..Len(alert_list) |-> alert_list[i].model_id],
     top |-> NLargest(rows, TopN, 1..Len(rows)),
     models_with_alerts |-> SumAlerts(rows, Len(rows)),
     total_models |-> Len(rows)]

EvalIdle ==
    /\ evaluation_data = 0
    /\ models = <<>>
    /\ idx = 0
    /\ predictions = <<>>
    /\ errors = 0
    /\ queries = 0
    /\ predRet = "none"
    /\ results = <<>>
    /\ snapshot = NoFile
    /\ ret = "none"

CheckInit ==
    /\ pc = "start"
    /\ slack_webhook_url \in {"", "url"}
    /\ posts = 0
    /\ logged = {}
    /\ exposition = NoExposition
    /\ results_file \in ResultsChoices
    /\ alerts = <<>>
    /\ summary = <<>>
    /\ message = NoMessage
    /\ EvalIdle
    /\ CostIdle
    /\ MetricIdle
    /\ CollectIdle

\* main with load_results mutated to log the failure and return an empty
\* document instead of None
LoadResultsContinues ==
    /\ pc = "start"
    /\ \/ /\ pc' = "check"
          /\ UNCHANGED logged
       \/ /\ logged' = logged \cup {[event |-> "load_results"]}
          /\ pc' = "check"
    /\ UNCHANGED <<slack_webhook_url, posts, exposition, checkVars, costVars>>
    /\ UNCHANGED <<evaluation_data, models, idx, predictions, errors, queries,
                   predRet, results, snapshot, ret, metricVars, collectVars>>
\* main: load_results returns the file's content, or logs and returns None
LoadResults ==
    /\ pc = "start"
    /\ \/ /\ pc' = "check"
          /\ UNCHANGED logged
       \/ /\ logged' = logged \cup {[event |-> "load_results"]}
          /\ pc' = "done"
    /\ UNCHANGED <<slack_webhook_url, posts, exposition, checkVars, costVars>>
    /\ UNCHANGED <<evaluation_data, models, idx, predictions, errors, queries,
                   predRet, results, snapshot, ret, metricVars, collectVars>>

\* check_performance(results)
CheckPerformance ==
    /\ pc = "check"
    /\ alerts' = AlertsOf(results_file, Len(results_file))
    /\ summary' = SummaryOf(results_file)
    /\ pc' = "send"
    /\ UNCHANGED <<slack_webhook_url, posts, logged, exposition, results_file,
                   message, costVars>>
    /\ UNCHANGED <<evaluation_data, models, idx, predictions, errors, queries,
                   predRet, results, snapshot, ret, metricVars, collectVars>>

\* ModelPerformanceChecker.send_alert(alerts, summary).  format_alert_message
\* runs outside the try block; on an empty summary the DataFrame has no
\* directional_accuracy column and nlargest raises KeyError.
CheckSendAlert ==
    /\ pc = "send"
    /\ IF slack_webhook_url = ""
       THEN /\ pc' = "export"
            /\ UNCHANGED <<posts, logged, message>>
       ELSE IF summary = <<>>
       THEN /\ pc' = "crashed"
            /\ UNCHANGED <<posts, logged, message>>
       ELSE /\ message' = FormatAlertMessage(alerts, summary)
            /\ posts' = posts + 1
            /\ \/ /\ UNCHANGED logged
                  /\ pc' = "export"
               \/ /\ logged' = logged \cup {[event |-> "send_alert"]}
                  /\ pc' = "export"
               \* requests.post without timeout=, and no answer
               \/ /\ UNCHANGED logged
                  /\ pc' = "blocked"
    /\ UNCHANGED <<slack_webhook_url, exposition, results_file, alerts,
                   summary, costVars>>
    /\ UNCHANGED <<evaluation_data, models, idx, predictions, errors, queries,
                   predRet, results, snapshot, ret, metricVars, collectVars>>

\* a + b on floats
FAdd(a, b) ==
    IF a.nan \/ b.nan THEN NaN ELSE Rat(a.n * b.d + b.n * a.d, a.d * b.d)

\* the sum and the count of the values of a column that are not NaN, over
\* the first k rows
RECURSIVE SumOf(_, _, _)
SumOf(rows, column, k) ==
    IF k = 0 THEN Num(0)
    ELSE IF rows[k][column].nan THEN SumOf(rows, column, k - 1)
    ELSE FAdd(SumOf(rows, column, k - 1), rows[k][column])
CountOf(rows, column) ==
    Cardinality({k \in 1..Len(rows) : ~rows[k][column].nan})

\* summary_df[column].mean(): pandas skips NaN; NaN when nothing is left
MeanOf(rows, column) ==
    IF CountOf(rows, column) = 0 THEN NaN
    ELSE LET t == SumOf(rows, column, Len(rows))
         IN Rat(t.n, t.d * CountOf(rows, column))

\* summary_df[column].min() over the first k rows: pandas skips NaN
RECURSIVE MinOf(_, _, _)
MinOf(rows, column, k) ==
    IF k = 0 THEN NaN
    ELSE LET rest == MinOf(rows, column, k - 1)
             v == rows[k][column]
         IN IF v.nan THEN rest
            ELSE IF rest.nan \/ FLt(v, rest) THEN v ELSE rest

\* one per-model line of export_metrics: the f-string
\* '{base}_<column> {value}' with base = 'model_performance{model_id="<id>"}'
RowLine(row, column, value) ==
    [text |-> <<"model_performance">> \o LabelSet("model_id", row.model_id)
                 \o <<"_" \o column>>,
     model_id |-> row.model_id,
     metric |-> column,
     value |-> value]

\* the lines ModelPerformanceChecker.export_metrics builds
CheckExportLines(rows) ==
    << [text |-> <<"model_performance_directional_accuracy_avg">>,
        model_id |-> "", metric |-> "directional_accuracy_avg",
        value |-> MeanOf(rows, "directional_accuracy")],
       [text |-> <<"model_performance_rmse_min">>,
        model_id |-> "", metric |-> "rmse_min",
        value |-> MinOf(rows, "rmse", Len(rows))],
       [text |-> <<"model_performance_alerts_total">>,
        model_id |-> "", metric |-> "alerts_total",
        value |-> Num(SumAlerts(rows, Len(rows)))] >>
    \o Flatten([k \in 1..Len(rows) |->
          << RowLine(rows[k], "directional_accuracy",
                     rows[k].directional_accuracy),
             RowLine(rows[k], "interval_accuracy", rows[k].interval_accuracy),
             RowLine(rows[k], "rmse", rows[k].rmse),
             RowLine(rows[k], "profit_correlation",
                     rows[k].profit_correlation),
             RowLine(rows[k], "alerts", Num(rows[k].alerts)) >>])

\* ModelPerformanceChecker.export_metrics(summary) up to open(..., 'w'),
\* which truncates the file.  No try block here or in main: an empty
\* summary raises KeyError, a failed open raises OSError.
CheckExportMetrics ==
    /\ pc = "export"
    /\ IF summary = <<>>
       THEN /\ pc' = "crashed"
            /\ UNCHANGED exposition
       ELSE \/ /\ exposition' = Truncated
               /\ pc' = "write"
            \/ /\ exposition' = OpenFailed
               /\ pc' = "crashed"
    /\ UNCHANGED <<slack_webhook_url, posts, logged, checkVars, costVars>>
    /\ UNCHANGED <<evaluation_data, models, idx, predictions, errors, queries,
                   predRet, results, snapshot, ret, metricVars, collectVars>>

\* export_metrics: f.write of the lines and the close of the file
CheckWriteMetrics ==
    /\ pc = "write"
    /\ \/ /\ exposition' = Written(summary, CheckExportLines(summary))
          /\ pc' = "done"
       \/ /\ pc' = "crashed"
          /\ UNCHANGED exposition
    /\ UNCHANGED <<slack_webhook_url, posts, logged, checkVars, costVars>>
    /\ UNCHANGED <<evaluation_data, models, idx, predictions, errors, queries,
                   predRet, results, snapshot, ret, metricVars, collectVars>>

CheckNext ==
    \/ LoadResults
    \/ CheckPerformance
    \/ CheckSendAlert
    \/ CheckExportMetrics
    \/ CheckWriteMetrics

CheckSpec == CheckInit /\ [][CheckNext]_vars

----------------------------------------------------------------------------
(* CostAnalyzer *)

\* longest window of daily costs
MaxDays == 7
\* the cost of one row of a cost file
CostValues == 0..2

\* the values COST_THRESHOLD takes in the model; 1000 is the default
CostThresholds == {30, 1000}

\* self.alert_threshold_percent = 0.8
alert_threshold_percent == Rat(8, 10)

\* the series of test property 8.4
SpikeSeries == <<1, 1, 1, 1, 10>>

\* the daily totals of the cost files of the model
SeriesChoices ==
    UNION {[1..n -> CostValues] : n \in 0..MaxDays} \cup {SpikeSeries}

\* a cost file with one service: one row per day
Frame(series) ==
    [i \in 1..Len(series) |->
        [date |-> i, service |-> "EC2", cost |-> series[i]]]

\* the cost files: one service, or a second service billed on the first day
DfChoices ==
    {Frame(q) : q \in SeriesChoices}
    \cup {Append(Frame(q), [date |-> 1, service |-> "S3", cost |-> 1]) :
             q \in {r \in SeriesChoices : Len(r) \in 1..2}}

\* a >= b on floats: false when either side is NaN
FGe(a, b) == ~a.nan /\ ~b.nan /\ a.n * b.d >= b.n * a.d

RECURSIVE SumCost(_, _, _)
\* the sum of the costs of the rows of df[1..k] dated `date`
SumCost(rows, date, k) ==
    IF k = 0 THEN 0
    ELSE SumCost(rows, date, k - 1)
         + (IF rows[k].date = date THEN rows[k].cost ELSE 0)

RECURSIVE SortedSeq(_)
\* the elements of a set of integers in ascending order
SortedSeq(S) ==
    IF S = {} THEN <<>>
    ELSE LET m == CHOOSE x \in S : \A y \in S : x <= y
         IN <<m>> \o SortedSeq(S \ {m})

\* df.groupby('date')['cost'].sum().reset_index(): one row per date, sorted
DailyCosts(rows) ==
    LET dates == SortedSeq({rows[i].date : i \in 1..Len(rows)})
    IN [k \in 1..Len(dates) |->
           [date |-> dates[k], cost |-> SumCost(rows, dates[k], Len(rows))]]

RECURSIVE Total(_, _)
\* daily_costs['cost'].sum() over the first k rows
Total(daily, k) == IF k = 0 THEN 0 ELSE Total(daily, k - 1) + daily[k].cost

\* the divisor of the variance, mutated to the population's (ddof=0)
StdDivisorPopulation(n) == n
\* the divisor of the variance in Series.std(): pandas' default ddof=1
StdDivisor(n) == n - 1

RECURSIVE SumSqDev(_, _)
\* sum over the first k rows of (n*cost - S)^2, n^2 times the sum of the
\* squared deviations from the mean S/n
SumSqDev(daily, k) ==
    IF k = 0 THEN 0
    ELSE LET dev == Len(daily) * daily[k].cost - Total(daily, Len(daily))
         IN SumSqDev(daily, k - 1) + dev * dev

\* (cost - mean) / std of row k.  With dev = n*cost - S and ss = SumSqDev,
\* cost - mean = dev/n and std = sqrt(ss / (n*n*dof)), so z*z = dof*dev^2/ss.
\* std is NaN when the divisor is 0 (one row), and 0/0 is NaN.
ZScore(daily, k) ==
    LET n == Len(daily)
        dev == n * daily[k].cost - Total(daily, n)
        ss == SumSqDev(daily, n)
        dof == StdDivisor(n)
    IN [nan |-> dof <= 0 \/ (ss = 0 /\ dev = 0),
        dev |-> dev, ss |-> ss, dof |-> dof]

\* abs(zscore) > 2, mutated to abs(zscore) > 1
IsAnomalyLoose(z) == ~z.nan /\ z.dof * z.dev * z.dev > z.ss
\* abs(zscore) > 2, mutated to not (abs(zscore) <= 2), true of a NaN
IsAnomalyNaN(z) == z.nan \/ z.dof * z.dev * z.dev > 4 * z.ss
\* abs(zscore) > 2: false of a NaN; a nonzero deviation over a zero std is
\* infinite
IsAnomaly(z) == ~z.nan /\ z.dof * z.dev * z.dev > 4 * z.ss

\* analyze_anomalies(df): the flagged rows (by date), None when there is none
AnalyzeAnomalies(rows) ==
    LET daily == DailyCosts(rows)
        flagged == {daily[k].date :
                       k \in {j \in 1..Len(daily) : IsAnomaly(ZScore(daily, j))}}
    IN [computed |-> TRUE, isNone |-> flagged = {}, dates |-> flagged]

\* analyze_daily_costs(df): projected_monthly_cost = mean * 30
AnalyzeDailyCosts(rows) ==
    LET daily == DailyCosts(rows)
    IN [computed |-> TRUE,
        projected_monthly_cost |->
            Rat(30 * Total(daily, Len(daily)), Len(daily))]

\* check_thresholds with >= mutated to >
CheckThresholdsStrict(stats, threshold) ==
    IF FGt(stats.projected_monthly_cost, Num(threshold))
    THEN <<[level |-> "CRITICAL"]>>
    ELSE IF FGt(stats.projected_monthly_cost,
                Rat(threshold * alert_threshold_percent.n,
                    alert_threshold_percent.d))
    THEN <<[level |-> "WARNING"]>>
    ELSE <<>>
\* check_thresholds(daily_stats)
CheckThresholds(stats, threshold) ==
    IF FGe(stats.projected_monthly_cost, Num(threshold))
    THEN <<[level |-> "CRITICAL"]>>
    ELSE IF FGe(stats.projected_monthly_cost,
                Rat(threshold * alert_threshold_percent.n,
                    alert_threshold_percent.d))
    THEN <<[level |-> "WARNING"]>>
    ELSE <<>>

CostInit ==
    /\ pc = "start"
    /\ slack_webhook_url \in {"", "url"}
    /\ posts = 0
    /\ logged = {}
    /\ exposition = NoExposition
    /\ cost_threshold \in CostThresholds
    /\ df \in DfChoices
    /\ daily_stats = NoStats
    /\ anomalies = NoAnomalies
    /\ cost_alerts = <<>>
    /\ EvalIdle
    /\ CheckIdle
    /\ MetricIdle
    /\ CollectIdle

\* main: load_cost_data returns the rows, or logs and returns None
LoadCostData ==
    /\ pc = "start"
    /\ \/ /\ pc' = "daily"
          /\ UNCHANGED logged
       \/ /\ logged' = logged \cup {[event |-> "load_cost_data"]}
          /\ pc' = "done"
    /\ UNCHANGED <<slack_webhook_url, posts, exposition, checkVars, costVars>>
    /\ UNCHANGED <<evaluation_data, models, idx, predictions, errors, queries,
                   predRet, results, snapshot, ret, metricVars, collectVars>>

\* main: analyze_daily_costs(df).  A file without groups gives a DataFrame
\* without columns, and groupby('date') raises KeyError.
CostDailyStats ==
    /\ pc = "daily"
    /\ IF df = <<>>
       THEN /\ pc' = "crashed"
            /\ UNCHANGED daily_stats
       ELSE /\ daily_stats' = AnalyzeDailyCosts(df)
            /\ pc' = "service"
    /\ UNCHANGED <<slack_webhook_url, posts, logged, exposition, checkVars,
                   cost_threshold, df, anomalies, cost_alerts>>
    /\ UNCHANGED <<evaluation_data, models, idx, predictions, errors, queries,
                   predRet, results, snapshot, ret, metricVars, collectVars>>

\* main: analyze_service_costs(df); its table is read by the message and the
\* export only
CostServiceCosts ==
    /\ pc = "service"
    /\ pc' = "anomalies"
    /\ UNCHANGED <<slack_webhook_url, posts, logged, exposition, checkVars,
                   costVars>>
    /\ UNCHANGED <<evaluation_data, models, idx, predictions, errors, queries,
                   predRet, results, snapshot, ret, metricVars, collectVars>>

\* main: analyze_anomalies(df)
CostAnomalies ==
    /\ pc = "anomalies"
    /\ anomalies' = AnalyzeAnomalies(df)
    /\ pc' = "thresholds"
    /\ UNCHANGED <<slack_webhook_url, posts, logged, exposition, checkVars,
                   cost_threshold, df, daily_stats, cost_alerts>>
    /\ UNCHANGED <<evaluation_data, models, idx, predictions, errors, queries,
                   predRet, results, snapshot, ret, metricVars, collectVars>>

\* main with export_metrics mutated to run only under `if alerts:`
CostCheckThresholdsExportInIf ==
    /\ pc = "thresholds"
    /\ cost_alerts' = CheckThresholds(daily_stats, cost_threshold)
    /\ pc' = IF cost_alerts' # <<>> THEN "send" ELSE "done"
    /\ UNCHANGED <<slack_webhook_url, posts, logged, exposition, checkVars,
                   cost_threshold, df, daily_stats, anomalies>>
    /\ UNCHANGED <<evaluation_data, models, idx, predictions, errors, queries,
                   predRet, results, snapshot, ret, metricVars, collectVars>>
\* main: check_thresholds(daily_stats) and the test if alerts:
CostCheckThresholds ==
    /\ pc = "thresholds"
    /\ cost_alerts' = CheckThresholds(daily_stats, cost_threshold)
    /\ pc' = IF cost_alerts' # <<>> THEN "send" ELSE "export"
    /\ UNCHANGED <<slack_webhook_url, posts, logged, exposition, checkVars,
                   cost_threshold, df, daily_stats, anomalies>>
    /\ UNCHANGED <<evaluation_data, models, idx, predictions, errors, queries,
                   predRet, results, snapshot, ret, metricVars, collectVars>>

\* CostAnalyzer.send_alert.  There is no test of slack_webhook_url: with the
\* variable unset requests.post(None, ...) raises MissingSchema inside the try
\* block, which is logged.  The anomalies text calls strftime on the date,
\* a str in analyze_anomalies' frame: AttributeError, outside the try block.
CostSendAlert ==
    /\ pc = "send"
    /\ IF cost_alerts = <<>>
       THEN /\ pc' = "export"
            /\ UNCHANGED <<posts, logged>>
       ELSE IF ~anomalies.isNone
       THEN /\ pc' = "crashed"
            /\ UNCHANGED <<posts, logged>>
       ELSE /\ posts' = posts + 1
            /\ \/ /\ slack_webhook_url # ""
                  /\ UNCHANGED logged
                  /\ pc' = "export"
               \/ /\ logged' = logged \cup {[event |-> "send_alert"]}
                  /\ pc' = "export"
               \* requests.post without timeout=, and no answer
               \/ /\ slack_webhook_url # ""
                  /\ UNCHANGED logged
                  /\ pc' = "blocked"
    /\ UNCHANGED <<slack_webhook_url, exposition, checkVars, costVars>>
    /\ UNCHANGED <<evaluation_data, models, idx, predictions, errors, queries,
                   predRet, results, snapshot, ret, metricVars, collectVars>>

\* the lines export_metrics builds from daily_stats (of its entries the
\* model holds projected_monthly_cost)
CostExportLines(stats) ==
    << [text |-> <<"aws_cost_", "projected_monthly_cost">>,
        model_id |-> "", metric |-> "projected_monthly_cost",
        value |-> stats.projected_monthly_cost] >>

\* export_metrics(daily_stats, service_costs) up to open(..., 'w'), which
\* truncates the file.  No try block: a failed open raises.
CostExportMetrics ==
    /\ pc = "export"
    /\ \/ /\ exposition' = Truncated
          /\ pc' = "write"
       \/ /\ exposition' = OpenFailed
          /\ pc' = "crashed"
    /\ UNCHANGED <<slack_webhook_url, posts, logged, checkVars, costVars>>
    /\ UNCHANGED <<evaluation_data, models, idx, predictions, errors, queries,
                   predRet, results, snapshot, ret, metricVars, collectVars>>

\* export_metrics: f.write of the lines and the close of the file
CostWriteMetrics ==
    /\ pc = "write"
    /\ \/ /\ exposition' = Written(<<daily_stats>>,
                                  CostExportLines(daily_stats))
          /\ pc' = "done"
       \/ /\ pc' = "crashed"
          /\ UNCHANGED exposition
    /\ UNCHANGED <<slack_webhook_url, posts, logged, checkVars, costVars>>
    /\ UNCHANGED <<evaluation_data, models, idx, predictions, errors, queries,
                   predRet, results, snapshot, ret, metricVars, collectVars>>

CostNext ==
    \/ LoadCostData
    \/ CostDailyStats
    \/ CostServiceCosts
    \/ CostAnomalies
    \/ CostCheckThresholds
    \/ CostSendAlert
    \/ CostExportMetrics
    \/ CostWriteMetrics

CostSpec == CostInit /\ [][CostNext]_vars

----------------------------------------------------------------------------
(* ModelEvaluator.evaluate_model on given series (MetricSpec) *)

\* longest series of the evaluation dataset
MaxSeries == 4
\* the prices of the series
PriceValues == {1, 2}

\* the sum of the first k entries of a sequence of integers
RECURSIVE SumTo(_, _)
SumTo(s, k) == IF k = 0 THEN 0 ELSE SumTo(s, k - 1) + s[k]

\* np.abs
Abs(x) == IF x < 0 THEN 0 - x ELSE x

\* np.diff
Diff(s) == [i \in 1..(Len(s) - 1) |-> s[i + 1] - s[i]]

\* mean_squared_error(y_true, y_pred)
MeanSquaredError(yt, yp) ==
    Rat(SumTo([i \in 1..Len(yt) |-> (yt[i] - yp[i]) * (yt[i] - yp[i])],
              Len(yt)),
        Len(yt))

\* np.sqrt, kept as the root of its argument
Sqrt(x) == [nan |-> x.nan, root_of |-> x]

\* mean_absolute_error(y_true, y_pred)
MeanAbsoluteError(yt, yp) ==
    Rat(SumTo([i \in 1..Len(yt) |-> Abs(yt[i] - yp[i])], Len(yt)), Len(yt))

\* 1 - sum((y_true - y_pred)**2) / sum((y_true - mean(y_true))**2), with
\* both sums scaled by len**2.  numpy divides by zero without raising:
\* 0/0 is NaN and x/0 is inf.
R2(yt, yp) ==
    LET n == Len(yt)
        total == SumTo(yt, n)
        res == SumTo([i \in 1..n |-> (yt[i] - yp[i]) * (yt[i] - yp[i])], n)
        tot == SumTo([i \in 1..n |->
                        (n * yt[i] - total) * (n * yt[i] - total)], n)
    IN IF tot = 0
       THEN IF res = 0 THEN NaN ELSE Rat(0 - 1, 0)
       ELSE Rat(tot - res * n * n, tot)

\* np.diff(s) > 0
Direction(s) == [i \in 1..(Len(s) - 1) |-> Diff(s)[i] > 0]

\* np.mean of a boolean array: NaN for an empty array
MeanOfFlags(flags) ==
    IF Len(flags) = 0 THEN NaN
    ELSE Rat(Cardinality({i \in 1..Len(flags) : flags[i]}), Len(flags))

\* np.mean(direction_true == direction_pred)
ArrayDirectionalAccuracy(yt, yp) ==
    MeanOfFlags([i \in 1..(Len(yt) - 1) |->
                    Direction(yt)[i] = Direction(yp)[i]])

\* np.mean(np.logical_and(y_true >= predicted_low, y_true <= predicted_high))
IntervalAccuracy(yt, low, high) ==
    MeanOfFlags([i \in 1..Len(yt) |-> yt[i] >= low[i] /\ yt[i] <= high[i]])

MetricInit ==
    /\ pc = "regression"
    /\ slack_webhook_url = ""
    /\ posts = 0
    /\ logged = {}
    /\ exposition = NoExposition
    /\ \E n \in 1..MaxSeries :
          /\ y_true \in [1..n -> PriceValues]
          /\ y_pred \in [1..n -> PriceValues]
          /\ predicted_low \in [1..n -> PriceValues]
    /\ model_metrics = <<>>
    /\ EvalIdle
    /\ CheckIdle
    /\ CostIdle
    /\ CollectIdle

\* evaluate_regression_model(y_true, y_pred, confidence): of its entries the
\* model holds mse, rmse, mae and r2
EvaluateRegressionModel ==
    /\ pc = "regression"
    /\ model_metrics' = [mse |-> MeanSquaredError(y_true, y_pred),
                   rmse |-> Sqrt(MeanSquaredError(y_true, y_pred)),
                   mae |-> MeanAbsoluteError(y_true, y_pred),
                   r2 |-> R2(y_true, y_pred)]
    /\ pc' = "direction"
    /\ UNCHANGED <<slack_webhook_url, posts, logged, evalVars, checkVars,
                   costVars, collectVars, y_true, y_pred,
                   predicted_low>>

\* evaluate_model: directional accuracy
EvaluateDirection ==
    /\ pc = "direction"
    /\ model_metrics' =
          [k \in DOMAIN model_metrics \cup {"directional_accuracy"} |->
                      IF k = "directional_accuracy"
                      THEN ArrayDirectionalAccuracy(y_true, y_pred)
                      ELSE model_metrics[k]]
    /\ pc' = "interval"
    /\ UNCHANGED <<slack_webhook_url, posts, logged, evalVars, checkVars,
                   costVars, collectVars, y_true, y_pred,
                   predicted_low>>

\* evaluate_model: prediction intervals accuracy; predicted_high is y_pred
EvaluateInterval ==
    /\ pc = "interval"
    /\ model_metrics' =
          [k \in DOMAIN model_metrics \cup {"interval_accuracy"} |->
                      IF k = "interval_accuracy"
                      THEN IntervalAccuracy(y_true, predicted_low, y_pred)
                      ELSE model_metrics[k]]
    /\ pc' = "evaluated"
    /\ UNCHANGED <<slack_webhook_url, posts, logged, evalVars, checkVars,
                   costVars, collectVars, y_true, y_pred,
                   predicted_low>>

MetricNext ==
    \/ EvaluateRegressionModel
    \/ EvaluateDirection
    \/ EvaluateInterval

MetricSpec == MetricInit /\ [][MetricNext]_vars

----------------------------------------------------------------------------
(* MetricsCollector (CollectSpec) *)

\* the collectors in the order collect_all calls them
CollectorOrder == <<"system", "model", "portfolio", "api">>

\* the gauges collect_system_metrics sets, in order
SystemGauges ==
    << <<"system_memory_usage_bytes", "heap">>,
       <<"system_memory_usage_bytes", "stack">>,
       <<"system_memory_usage_bytes", "total">>,
       <<"system_cpu_usage_percent", "user">>,
       <<"system_cpu_usage_percent", "system">>,
       <<"system_cpu_usage_percent", "total">> >>

\* the gauges collect_model_metrics sets for a payload with the models ids
ModelGauges(ids) ==
    Flatten([i \in 1..Len(ids) |->
        << <<"model_prediction_accuracy", ids[i]>>,
           <<"model_prediction_latency_seconds", ids[i]>> >>])

\* the gauges collect_portfolio_metrics sets for a payload with the
\* portfolios pids
PortfolioGauges(pids) ==
    Flatten([i \in 1..Len(pids) |->
        << <<"portfolio_total_value", pids[i]>>,
           <<"portfolio_return_rate", pids[i], "daily">>,
           <<"portfolio_return_rate", pids[i], "weekly">>,
           <<"portfolio_return_rate", pids[i], "monthly">>,
           <<"portfolio_return_rate", pids[i], "yearly">> >>])

\* the gauges collect_api_metrics sets for a payload with one endpoint, one
\* method and the status codes given
ApiGauges(statuses) ==
    [i \in 1..Len(statuses) |->
        <<"api_request_total", "/predict", "POST", statuses[i]>>]
    \o <<<<"api_request_latency_seconds", "/predict", "POST">>>>

\* the payloads of the model, portfolio and API endpoints in the model
ModelPayloads == {SubSeq(ModelList, 1, k) : k \in 0..Len(ModelList)}
PortfolioPayloads == {<<>>, <<"P">>}
ApiPayloads == {<<"200">>, <<"200", "500">>}

\* the first k entries of a sequence, as a set
Prefix(s, k) == {s[i] : i \in 1..k}

\* one collector, mutated to let the exception escape instead of logging it
RunCollectorRaising(c, sets, next) ==
    \/ /\ gauges' = gauges \cup Prefix(sets, Len(sets))
       /\ ran' = Append(ran, [collector |-> c, failed |-> FALSE,
                              kept |-> Prefix(sets, Len(sets))])
       /\ pc' = next
       /\ UNCHANGED logged
    \/ \E k \in 0..Len(sets) :
          /\ k < Len(sets) \/ k = 0
          /\ gauges' = gauges \cup Prefix(sets, k)
          /\ ran' = Append(ran, [collector |-> c, failed |-> TRUE,
                                 kept |-> Prefix(sets, k)])
          /\ pc' = "crashed"
          /\ UNCHANGED logged
    \/ /\ pc' = "blocked"
       /\ UNCHANGED <<gauges, ran, logged>>
\* one collector: the request, then the gauges set one after the other,
\* all inside try/except Exception.  The request or the payload may fail
\* after k gauges are set; requests.get has no timeout= and may never
\* return.
RunCollector(c, sets, next) ==
    \/ /\ gauges' = gauges \cup Prefix(sets, Len(sets))
       /\ ran' = Append(ran, [collector |-> c, failed |-> FALSE,
                              kept |-> Prefix(sets, Len(sets))])
       /\ pc' = next
       /\ UNCHANGED logged
    \/ \E k \in 0..Len(sets) :
          /\ k < Len(sets) \/ k = 0
          /\ gauges' = gauges \cup Prefix(sets, k)
          /\ ran' = Append(ran, [collector |-> c, failed |-> TRUE,
                                 kept |-> Prefix(sets, k)])
          /\ logged' = logged \cup {[event |-> "collect", collector |-> c]}
          /\ pc' = next
    \/ /\ pc' = "blocked"
       /\ UNCHANGED <<gauges, ran, logged>>

CollectInit ==
    /\ pc = "system"
    /\ slack_webhook_url = ""
    /\ posts = 0
    /\ logged = {}
    /\ exposition = NoExposition
    /\ gauges = {}
    /\ ran = <<>>
    /\ EvalIdle
    /\ CheckIdle
    /\ CostIdle
    /\ MetricIdle

CollectSystemMetrics ==
    /\ pc = "system"
    /\ RunCollector("system", SystemGauges, "model")
    /\ UNCHANGED <<slack_webhook_url, posts, evalVars, checkVars, costVars,
                   metricVars>>

CollectModelMetrics ==
    /\ pc = "model"
    /\ \E ids \in ModelPayloads :
          RunCollector("model", ModelGauges(ids), "portfolio")
    /\ UNCHANGED <<slack_webhook_url, posts, evalVars, checkVars, costVars,
                   metricVars>>

CollectPortfolioMetrics ==
    /\ pc = "portfolio"
    /\ \E pids \in PortfolioPayloads :
          RunCollector("portfolio", PortfolioGauges(pids), "api")
    /\ UNCHANGED <<slack_webhook_url, posts, evalVars, checkVars, costVars,
                   metricVars>>

CollectApiMetrics ==
    /\ pc = "api"
    /\ \E statuses \in ApiPayloads :
          RunCollector("api", ApiGauges(statuses), "export")
    /\ UNCHANGED <<slack_webhook_url, posts, evalVars, checkVars, costVars,
                   metricVars>>

\* MetricsCollector.export_metrics: prometheus_client's write_text_file
\* renders the registry and replaces the file in one step; no try block
\* here or in main
CollectExportMetrics ==
    /\ pc = "export"
    /\ \/ /\ exposition' = Written(gauges, <<>>)
          /\ pc' = "done"
       \/ /\ exposition' = OpenFailed
          /\ pc' = "crashed"
    /\ UNCHANGED <<slack_webhook_url, posts, logged, checkVars, costVars,
                   metricVars, collectVars>>
    /\ UNCHANGED <<evaluation_data, models, idx, predictions, errors, queries,
                   predRet, results, snapshot, ret>>

CollectNext ==
    \/ CollectSystemMetrics
    \/ CollectModelMetrics
    \/ CollectPortfolioMetrics
    \/ CollectApiMetrics
    \/ CollectExportMetrics

CollectSpec == CollectInit /\ [][CollectNext]_vars

----------------------------------------------------------------------------
(* Properties of ModelEvaluator (EvalSpec) *)

\* the number of None entries of a predictions list
RECURSIVE CountNone(_)
CountNone(list) ==
    IF list = <<>> THEN 0
    ELSE (IF Head(list) = "None" THEN 1 ELSE 0) + CountNone(Tail(list))

AbortLogged(m) == [event |-> "high_error_rate", model |-> m] \in logged

\* C1: when get_predictions returns it has issued exactly one query per row
\* of the dataset, and it has returned None (the entity is abandoned) if and
\* only if the failed queries are strictly more than 10% of the rows, so that
\* exactly 10% does not abandon it; an abandoned entity never has an entry in
\* the run's results.
C1_ErrorBudget ==
    /\ pc = "evaluate" =>
          /\ queries = evaluation_data
          /\ Len(predictions) = evaluation_data
          /\ errors = CountNone(predictions)
          /\ (predRet = "None") <=> (10 * errors > evaluation_data)
          /\ (predRet = "list") <=> (10 * errors <= evaluation_data)
    /\ \A i \in 1..Len(models) :
          AbortLogged(models[i]) => models[i] \notin ResultIds(results)

\* C1 witness: a first entity was abandoned and left no sample, and the
\* current one returns its list with exactly 10% of its queries failed
C1_Witness ==
    /\ pc = "evaluate"
    /\ idx = 1
    /\ AbortLogged(models[1])
    /\ results = <<>>
    /\ errors > 0
    /\ 10 * errors = evaluation_data
    /\ predRet = "list"

\* C2: a per-entity failure removes only that entity: the run never ends
\* with an uncaught error, and a finished run has gone through every model
\* of the list.
C2_EntityFailureIsolated ==
    /\ pc # "crashed"
    /\ (pc = "done" /\ ret = "True") => idx = Len(models)

\* C3: a run that has ended, whatever failed in it, has attempted to write
\* the snapshot, and a written snapshot holds exactly the samples produced.
C3_SnapshotAlwaysAttempted ==
    pc \in {"done", "crashed"} =>
        /\ snapshot.attempted
        /\ snapshot.written => snapshot.results = results

\* C9: at most one outbound notification call is made in a run.
C9_AtMostOneNotification == posts <= 1

----------------------------------------------------------------------------
(* Properties of ModelPerformanceChecker (CheckSpec) *)

\* check_performance has run
Checked ==
    \/ pc \in {"send", "export", "write", "crashed", "blocked"}
    \/ pc = "done" /\ [event |-> "load_results"] \notin logged

\* the alert list holds a violation of `metric` with `status` for the model
HasViolation(model_id, metric, status) ==
    \E i \in 1..Len(alerts) :
        /\ alerts[i].model_id = model_id
        /\ \E j \in 1..Len(alerts[i].alerts) :
              /\ alerts[i].alerts[j].metric = metric
              /\ alerts[i].alerts[j].status = status

\* value > threshold, as numbers
Above(v, t) == ~v.nan /\ v.n * t.d > t.n * v.d
\* value < threshold, as numbers
Below(v, t) == ~v.nan /\ v.n * t.d < t.n * v.d

\* C4: for every sample and every rule whose metric is present, the rmse
\* rule records a too-high violation iff value > threshold and never a
\* too-low one, every other rule records a too-low violation iff
\* value < threshold and never a too-high one; value = threshold records
\* nothing.
C4_ThresholdDirections ==
    Checked =>
        \A k \in 1..Len(results_file) : \A r \in 1..Len(thresholds) :
            LET id == results_file[k].model_id
                metrics == results_file[k].metrics
                metric == thresholds[r].metric
                t == thresholds[r].threshold
            IN metric \in DOMAIN metrics =>
                  IF metric = "rmse"
                  THEN /\ HasViolation(id, metric, "high")
                              <=> Above(metrics[metric], t)
                       /\ ~HasViolation(id, metric, "low")
                  ELSE /\ HasViolation(id, metric, "low")
                              <=> Below(metrics[metric], t)
                       /\ ~HasViolation(id, metric, "high")

\* C4 witness: a checked sample whose rmse equals its threshold and whose
\* directional accuracy is below its threshold
C4_Witness ==
    /\ Checked
    /\ \E k \in 1..Len(results_file) :
          LET metrics == results_file[k].metrics
          IN /\ {"rmse", "directional_accuracy"} \subseteq DOMAIN metrics
             /\ metrics["rmse"] = ThresholdOf("rmse")
             /\ Below(metrics["directional_accuracy"],
                      ThresholdOf("directional_accuracy"))
             /\ HasViolation(results_file[k].model_id,
                             "directional_accuracy", "low")

\* the metrics of the rules a sample violates, in rule-declaration order
ViolatedMetrics(metrics) ==
    LET Violated(rule) ==
            /\ rule.metric \in DOMAIN metrics
            /\ IF rule.metric = "rmse"
               THEN Above(metrics[rule.metric], rule.threshold)
               ELSE Below(metrics[rule.metric], rule.threshold)
        hit == SelectSeq(thresholds, Violated)
    IN [j \in 1..Len(hit) |-> hit[j].metric]

\* the ids of the models of the file that violate a rule, in file order
ViolatingIds ==
    LET Violating(entry) == ViolatedMetrics(entry.metrics) # <<>>
        hit == SelectSeq(results_file, Violating)
    IN [j \in 1..Len(hit) |-> hit[j].model_id]

\* C5: check_performance produces an Alert for an entity iff it violates at
\* least one rule, one Alert per such entity; the Alert lists exactly the
\* violated rules whose metric is present, once each, in rule-declaration
\* order.
C5_AlertListsViolations ==
    Checked =>
        /\ [i \in 1..Len(alerts) |-> alerts[i].model_id] = ViolatingIds
        /\ \A i \in 1..Len(alerts) : \A k \in 1..Len(results_file) :
              results_file[k].model_id = alerts[i].model_id =>
                 [j \in 1..Len(alerts[i].alerts) |->
                     alerts[i].alerts[j].metric]
                   = ViolatedMetrics(results_file[k].metrics)

\* C5 witness: a file with a model that has no Alert and a model whose Alert
\* lists two violations although one of the metrics is absent from it
C5_Witness ==
    /\ Checked
    /\ Len(alerts) < Len(results_file)
    /\ \E i \in 1..Len(alerts) : \E k \in 1..Len(results_file) :
          /\ results_file[k].model_id = alerts[i].model_id
          /\ Len(alerts[i].alerts) = 2
          /\ DOMAIN results_file[k].metrics # MetricNames

----------------------------------------------------------------------------
(* Properties of CostAnalyzer (CostSpec) *)

\* the daily totals analyze_anomalies works on
DailySeries ==
    LET daily == DailyCosts(df) IN [k \in 1..Len(daily) |-> daily[k].cost]

IsConstant(series) == \A i, j \in 1..Len(series) : series[i] = series[j]

RECURSIVE SeqSum(_)
SeqSum(series) ==
    IF series = <<>> THEN 0 ELSE Head(series) + SeqSum(Tail(series))

\* |x - mean| > 2 * sqrt(sum of (y - mean)^2 / divisor) over the series,
\* squared and multiplied by n^2 * divisor
Beyond2Sigma(series, x, divisor) ==
    LET n == Len(series)
        S == SeqSum(series)
        sq == [i \in 1..n |-> (n * series[i] - S) * (n * series[i] - S)]
    IN divisor * (n * x - S) * (n * x - S) > 4 * SeqSum(sq)

\* C6 as stated: the detector flags exactly the points more than two
\* population standard deviations (divisor n) away from the mean.
C6_PopulationStd ==
    anomalies.computed =>
        LET daily == DailyCosts(df)
            series == [k \in 1..Len(daily) |-> daily[k].cost]
        IN Len(series) >= 2 =>
              \A k \in 1..Len(series) :
                  daily[k].date \in anomalies.dates
                    <=> Beyond2Sigma(series, series[k], Len(series))

\* C6 amended: the detector flags exactly the points more than two sample
\* standard deviations (divisor n - 1) away from the mean of the series.
C6_SampleStd ==
    anomalies.computed =>
        LET daily == DailyCosts(df)
            series == [k \in 1..Len(daily) |-> daily[k].cost]
        IN Len(series) >= 2 =>
              \A k \in 1..Len(series) :
                  daily[k].date \in anomalies.dates
                    <=> Beyond2Sigma(series, series[k], Len(series) - 1)

\* C6 witness: a series in which the detector flagged a point
C6_Witness ==
    /\ anomalies.computed
    /\ Len(DailySeries) >= 2
    /\ anomalies.dates # {}
    /\ ~anomalies.isNone

\* C7 as stated: on [1,1,1,1,10] the point 10 is flagged and no other.
C7_SpikeFlagged ==
    (anomalies.computed /\ DailySeries = SpikeSeries) =>
        (~anomalies.isNone /\ anomalies.dates = {5})

\* C7 amended: on [1,1,1,1,10] the detector flags no point, neither the 10
\* (z = 1.79) nor a 1, and returns None.
C7_SpikeNotFlagged ==
    (anomalies.computed /\ DailySeries = SpikeSeries) =>
        (anomalies.isNone /\ anomalies.dates = {})

\* C7 witness: the detector has run on [1,1,1,1,10]
C7_Witness ==
    /\ anomalies.computed
    /\ DailySeries = SpikeSeries
    /\ pc = "thresholds"

\* C8: on a constant series of length >= 2 analyze_anomalies returns with no
\* anomaly (None), without a fault, and leaves the input rows as they were.
C8_ConstantSeries ==
    [][(pc = "anomalies" /\ IsConstant(DailySeries) /\ Len(DailySeries) >= 2)
         => /\ pc' = "thresholds"
            /\ anomalies'.computed
            /\ anomalies'.isNone
            /\ anomalies'.dates = {}
            /\ df' = df]_vars

\* C8 witness: the detector has returned on a constant series of 2 or more
C8_Witness ==
    /\ pc = "thresholds"
    /\ anomalies.computed
    /\ IsConstant(DailySeries)
    /\ Len(DailySeries) >= 2
    /\ DailySeries[1] > 0

\* C10: with no endpoint configured a dispatch makes no outbound call and
\* logs no error.
C10_NoEndpointNoDispatch ==
    slack_webhook_url = "" =>
        /\ posts = 0
        /\ [event |-> "send_alert"] \notin logged

----------------------------------------------------------------------------
(* Isolation of dispatch and export (CostSpec) *)

\* C11: a failure in the dispatch step does not prevent the export step:
\* a run that had alerts to dispatch and has ended has attempted the
\* export.
C11_DispatchDoesNotBlockExport ==
    (pc \in {"done", "crashed"} /\ cost_alerts # <<>>) => exposition.attempted

----------------------------------------------------------------------------
(* Load failures (CheckSpec; the formula reads the same under EvalSpec and
   CostSpec) *)

\* the loader of the run's input has failed and has reported it
LoadFailed ==
    \E e \in {"load_results", "load_cost_data", "load_data"} :
        [event |-> e] \in logged

\* C12: a failure to load the run's input is reported rather than raised,
\* and no downstream phase executes: the run ends without an uncaught
\* error, nothing is evaluated or checked, no outbound call is made and no
\* file is written.
C12_LoadFailureStopsRun ==
    LoadFailed =>
        /\ pc = "done"
        /\ posts = 0 /\ queries = 0
        /\ ~exposition.attempted /\ ~snapshot.attempted
        /\ alerts = <<>> /\ summary = <<>> /\ results = <<>>
        /\ ~daily_stats.computed /\ ~anomalies.computed /\ cost_alerts = <<>>
        /\ [event |-> "load_data"] \in logged => ret = "False"

\* a results file with models in it could not be loaded
C12_Witness ==
    /\ pc = "done"
    /\ [event |-> "load_results"] \in logged
    /\ Len(results_file) >= 2
    /\ slack_webhook_url # ""

----------------------------------------------------------------------------
(* The report of ModelPerformanceChecker (CheckSpec) *)

\* the position of a model id in ascending order of ids
IdRank(id) == CHOOSE i \in 1..3 : <<"A", "B", "C">>[i] = id

\* a = b as numbers
SameValue(a, b) == ~a.nan /\ ~b.nan /\ a.n * b.d = b.n * a.d

\* the smaller of two numbers
Min(a, b) == IF a < b THEN a ELSE b

\* C13: the top section lists the TopN entities with the largest
\* directional accuracy in descending order of that value, and entities
\* with equal values in ascending order of their ids, whatever their order
\* in the input.
C13_TopNAscendingIdOnTies ==
    message.built =>
        LET top == message.top
        IN /\ Len(top) = Min(TopN, Len(summary))
           /\ \A i \in 1..Len(top) :
                 \E k \in 1..Len(summary) : summary[k] = top[i]
           /\ \A i \in 1..(Len(top) - 1) :
                 /\ ~RanksAbove(top[i + 1].directional_accuracy,
                                top[i].directional_accuracy)
                 /\ SameValue(top[i].directional_accuracy,
                              top[i + 1].directional_accuracy)
                       => IdRank(top[i].model_id) < IdRank(top[i + 1].model_id)


\* C14: the statistic reported as "Models with Alerts" is the number of
\* entities with at least one violation.
C14_AlertedEntityCount ==
    message.built =>
        message.models_with_alerts =
            Cardinality({k \in 1..Len(results_file) :
                ModelAlerts(results_file[k].metrics, Len(thresholds)) # <<>>})


----------------------------------------------------------------------------
(* The exposition file (CheckSpec) *)

\* the lines of the exposition file that carry a metric of one entity
EntityLines ==
    {i \in 1..Len(exposition.lines) : exposition.lines[i].model_id # ""}

\* C15: the exposition output has a line for an (entity, metric) pair only
\* if that metric's value is a defined number: no line carries NaN.
C15_NoLineForNaN ==
    \A i \in EntityLines : ~exposition.lines[i].value.nan

\* a piece of text made of characters of [A-Za-z0-9_] only
IsWord(piece) ==
    piece \notin {"{", "}", "=", "\"", ",", "-", ":", ".", " ", ""}

\* the position of the first "{" of a text, or one past its end
RECURSIVE LabelStart(_, _)
LabelStart(text, i) ==
    IF i > Len(text) \/ text[i] = "{" THEN i ELSE LabelStart(text, i + 1)

\* t reads {label="value",...,label="value"}
IsLabelSet(t) ==
    /\ Len(t) >= 7
    /\ (Len(t) - 1) % 6 = 0
    /\ t[1] = "{"
    /\ \A j \in 0..(((Len(t) - 1) \div 6) - 1) :
          /\ IsWord(t[6 * j + 2])
          /\ t[6 * j + 3] = "="
          /\ t[6 * j + 4] = "\""
          /\ t[6 * j + 6] = "\""
          /\ t[6 * j + 7] = (IF 6 * j + 7 = Len(t) THEN "}" ELSE ",")

\* the text reads name or name{label="value",...}: the whole of the name
\* stands before the label set and is made of [A-Za-z0-9_] only
WellFormed(text) ==
    LET b == LabelStart(text, 1)
    IN /\ b > 1
       /\ \A i \in 1..(b - 1) : IsWord(text[i])
       /\ b <= Len(text) => IsLabelSet(SubSeq(text, b, Len(text)))

\* C16: every line of the exposition file has the form
\* name{label="value",...} value or name value, the complete metric name
\* standing before the label set and consisting of [A-Za-z0-9_] only.
C16_LineForm ==
    \A i \in 1..Len(exposition.lines) : WellFormed(exposition.lines[i].text)

\* C17: whenever a concurrent reader opens the exposition file it finds the
\* complete previous content or the complete new content, never an empty or
\* truncated file.
C17_AtomicReplace == exposition.visible \in {"previous", "new"}

\* the metrics of the sample of a model in the results file
SampleOf(model_id) ==
    results_file[CHOOSE k \in 1..Len(results_file) :
                    results_file[k].model_id = model_id].metrics

\* the columns of the summary that carry a metric of the sample
SampleColumns ==
    {"directional_accuracy", "interval_accuracy", "rmse", "profit_correlation"}

\* C18: every per-entity value in the exposition output and in the report is
\* the value of that metric in the entity's sample; a metric absent from
\* the sample is not reported under a substituted default value.
C18_OnlyComputedValues ==
    /\ \A i \in EntityLines :
          LET line == exposition.lines[i]
          IN line.metric \in SampleColumns =>
                /\ line.metric \in DOMAIN SampleOf(line.model_id)
                /\ SampleOf(line.model_id)[line.metric] = line.value
    /\ \A i \in 1..Len(message.top) : \A c \in SampleColumns :
          /\ c \in DOMAIN SampleOf(message.top[i].model_id)
          /\ SampleOf(message.top[i].model_id)[c] = message.top[i][c]


----------------------------------------------------------------------------
(* The metrics of evaluate_model (MetricSpec) *)

\* the predictions and both interval bounds equal the true values
PerfectPrediction ==
    /\ Len(y_true) >= 2
    /\ y_pred = y_true
    /\ predicted_low = y_true

\* C19: for a series of length >= 2 whose predictions and interval bounds
\* equal the true values, rmse = 0, mae = 0, r2 = 1,
\* directional_accuracy = 1 and interval_accuracy = 1, series of equal true
\* values included.
C19_PerfectPredictionMetrics ==
    (pc = "evaluated" /\ PerfectPrediction) =>
        /\ SameValue(model_metrics.rmse.root_of, Num(0))
        /\ SameValue(model_metrics.mae, Num(0))
        /\ SameValue(model_metrics.r2, Num(1))
        /\ SameValue(model_metrics.directional_accuracy, Num(1))
        /\ SameValue(model_metrics.interval_accuracy, Num(1))

\* the sign of a change: -1, 0 or 1
Sign(x) == IF x < 0 THEN 0 - 1 ELSE IF x > 0 THEN 1 ELSE 0

\* C20: directional_accuracy is the fraction of consecutive steps at which
\* the sign (negative, zero, positive) of the change of the true series
\* equals the sign of the change of the predicted series.
C20_SignAgreement ==
    (pc = "evaluated" /\ Len(y_true) >= 2) =>
        SameValue(model_metrics.directional_accuracy,
                  Rat(Cardinality({i \in 1..(Len(y_true) - 1) :
                          Sign(Diff(y_true)[i]) = Sign(Diff(y_pred)[i])}),
                      Len(y_true) - 1))


----------------------------------------------------------------------------
(* Order of the phases of ModelEvaluator (EvalSpec) *)

\* C21: the phases occur in the order collect and compute for every entity,
\* dispatch, export, persist snapshot: no notification is dispatched before
\* every model of the list has been collected and computed, and the
\* snapshot is not attempted before the export has been.
C21_PhaseOrder ==
    /\ posts > 0 => idx = Len(models)
    /\ snapshot.attempted => exposition.attempted


----------------------------------------------------------------------------
(* Unanswered calls (EvalSpec) *)

\* C22: no single unresponsive call blocks the run: the run is never left
\* waiting without end for an answer of the prediction endpoint or of the
\* notification endpoint.
C22_NoCallBlocksTheRun == pc # "blocked"


----------------------------------------------------------------------------
(* Cost alerts (CostSpec) *)

\* check_thresholds has returned
ThresholdsChecked ==
    /\ daily_stats.computed
    /\ pc \in {"send", "export", "write", "done", "crashed", "blocked"}

\* projected >= cost_threshold, as numbers
AtOrAboveThreshold ==
    LET p == daily_stats.projected_monthly_cost
    IN ~p.nan /\ p.n >= cost_threshold * p.d
\* projected >= cost_threshold * 0.8, as numbers
AtOrAboveWarning ==
    LET p == daily_stats.projected_monthly_cost
    IN ~p.nan /\ 10 * p.n >= 8 * cost_threshold * p.d

\* C23: check_thresholds returns at most one alert: CRITICAL iff
\* projected >= cost_threshold, WARNING iff
\* cost_threshold * 0.8 <= projected < cost_threshold, nothing otherwise;
\* both boundaries trigger on equality.
C23_OneCostAlert ==
    ThresholdsChecked =>
        /\ Len(cost_alerts) <= 1
        /\ cost_alerts = <<[level |-> "CRITICAL"]>> <=> AtOrAboveThreshold
        /\ cost_alerts = <<[level |-> "WARNING"]>>
              <=> (AtOrAboveWarning /\ ~AtOrAboveThreshold)
        /\ cost_alerts = <<>> <=> ~AtOrAboveWarning

\* the projected cost is exactly 80% of the threshold and a WARNING is
\* returned
C23_Witness ==
    /\ ThresholdsChecked
    /\ LET p == daily_stats.projected_monthly_cost
       IN 10 * p.n = 8 * cost_threshold * p.d
    /\ cost_alerts = <<[level |-> "WARNING"]>>


\* the run has ended inside send_alert
DispatchFailed ==
    pc = "crashed" /\ cost_alerts # <<>> /\ ~exposition.attempted

\* the run has ended after load_cost_data returned a frame
EndedAfterLoad ==
    pc \in {"done", "crashed"} /\ [event |-> "load_cost_data"] \notin logged

----------------------------------------------------------------------------
(* Undefined values in check_performance (CheckSpec) *)

\* every metric of the sample is NaN
AllUndefined(sample) == \A m \in DOMAIN sample : sample[m].nan

\* the model has an entry in the alert list
Alerted(model_id) ==
    \E i \in 1..Len(alerts) : alerts[i].model_id = model_id

\* C25: a metric whose value is NaN never produces a violation, for either
\* rule direction, and an entity whose metrics are all NaN has no entry in
\* the alert list.
C25_NaNNeverViolates ==
    Checked =>
        \A k \in 1..Len(results_file) :
            LET id == results_file[k].model_id
                sample == results_file[k].metrics
            IN /\ \A m \in DOMAIN sample :
                     sample[m].nan =>
                        /\ ~HasViolation(id, m, "low")
                        /\ ~HasViolation(id, m, "high")
               /\ AllUndefined(sample) => ~Alerted(id)

\* a model with all six metrics NaN has been checked and the alert list is
\* empty
C25_Witness ==
    /\ Checked
    /\ Len(results_file) = 1
    /\ DOMAIN results_file[1].metrics = MetricNames
    /\ AllUndefined(results_file[1].metrics)
    /\ alerts = <<>>


----------------------------------------------------------------------------
(* save_results (EvalSpec) *)

\* C26: in save_results the exposition export is attempted only after the
\* snapshot has been written; a failed snapshot write suppresses the
\* export; a failure in the export is caught, logged, and leaves the
\* written snapshot in place.
C26_ExportAfterSnapshot ==
    /\ exposition.attempted => snapshot.written
    /\ (snapshot.attempted /\ ~snapshot.written) =>
          /\ exposition = NoExposition
          /\ pc = "done"
          /\ [event |-> "save_results"] \in logged
    /\ (pc = "done" /\ exposition.attempted /\ ~exposition.written) =>
          /\ snapshot.written
          /\ snapshot.results = results
          /\ [event |-> "save_results"] \in logged
          /\ ret = "True"

\* the snapshot of a non-empty result set is written and the export after
\* it has failed
C26_Witness ==
    /\ pc = "done"
    /\ results # <<>>
    /\ snapshot.written
    /\ exposition.attempted
    /\ ~exposition.written


----------------------------------------------------------------------------
(* collect_all (CollectSpec) *)

\* C27: the four collectors run in the order system, model, portfolio, API;
\* a failure in one of them is caught, so the later ones and the export
\* still run; the gauges a collector set before it failed stay set and are
\* exported.
C27_CollectorsIsolated ==
    /\ [i \in 1..Len(ran) |-> ran[i].collector]
          = SubSeq(CollectorOrder, 1, Len(ran))
    /\ pc = "crashed" => exposition.attempted
    /\ (pc \in {"export", "done"} \/ exposition.attempted)
          => Len(ran) = Len(CollectorOrder)
    /\ pc \in {"done", "crashed"} => exposition.attempted
    /\ \A i \in 1..Len(ran) : ran[i].kept \subseteq gauges
    /\ exposition.written => exposition.results = gauges

\* collect_system_metrics failed after setting some gauges, the model
\* collector then set its gauges, and the export has written them all
C27_Witness ==
    /\ pc = "done"
    /\ exposition.written
    /\ ran[1].failed
    /\ ran[1].kept # {}
    /\ ~ran[2].failed
    /\ ran[2].kept # {}
    /\ ran[1].kept \cup ran[2].kept \subseteq exposition.results

=============================================================================
